---------------------------- MODULE Spec2Model ----------------------------
(***************************************************************************)
(* hex_dump: the formatting functions of src/src/lib.rs (gen_block,        *)
(* locations_header, data_row, create_row, byte_to_string, byte_to_hex,    *)
(* address_to_hex) as operators on strings, and dump() as a state machine  *)
(* over its reader, its read buffer, its address counter and its buffered  *)
(* writer.                                                                 *)
(*                                                                         *)
(* A string of the program is a TLA+ string, a byte is a number in 0..255, *)
(* a byte slice is a sequence of bytes, the output is a sequence of lines  *)
(* (one element per write! the program issues).                            *)
(***************************************************************************)
EXTENDS Integers, Sequences, FiniteSets

(***************************************************************************)
(* Bounds of the model.                                                    *)
(***************************************************************************)
\* Reads a regular file answers before it ends (Spec).
MaxRows == 33
\* Reads a pipe answers before it ends (SpecPipe).
MaxPipeReads == 4
\* Complete lines a failing flush may hand to the sink before the error.
MaxPartialLines == 1

(***************************************************************************)
(* Constants of the program.                                               *)
(***************************************************************************)
\* `address` is a u32 (lib.rs:81, 86, 135, 162).  The model checker's integers
\* are narrower, so a u32 is kept as its two 16-bit halves, [hi, lo], and Half
\* is the number of values of a half.
Half == 65536
\* BufWriter::new (lib.rs:65) allocates std's default capacity, 8 KiB.
BufCapacity == 8192
\* CommandLine::valid (lib.rs:23-25), checked by main before dump runs.
ValidColumns == {8, 16, 32, 64}

Min(a, b) == IF a < b THEN a ELSE b

(***************************************************************************)
(* Strings.                                                                *)
(***************************************************************************)
CharAt(s, i) == SubSeq(s, i, i)

RECURSIVE Repeat(_, _)
Repeat(s, n) == IF n <= 0 THEN "" ELSE s \o Repeat(s, n - 1)

\* format!("{:width$}", s): left-aligned, padded with spaces to `width`.
pad(s, width) == s \o Repeat(" ", width - Len(s))

\* [String]::join(sep)
RECURSIVE join(_, _)
join(strs, sep) ==
    IF strs = <<>> THEN ""
    ELSE IF Len(strs) = 1 THEN strs[1]
    ELSE strs[1] \o sep \o join(Tail(strs), sep)

UpperLetters == "ABCDEFGHIJKLMNOPQRSTUVWXYZ"
LowerLetters == "abcdefghijklmnopqrstuvwxyz"

lower_char(c) ==
    IF \E i \in 1..Len(UpperLetters) : CharAt(UpperLetters, i) = c
    THEN CharAt(LowerLetters, CHOOSE i \in 1..Len(UpperLetters) : CharAt(UpperLetters, i) = c)
    ELSE c

\* str::to_lowercase: every character lowered, computed by halves.
RECURSIVE to_lowercase(_)
to_lowercase(s) ==
    IF Len(s) = 0 THEN ""
    ELSE IF Len(s) = 1 THEN lower_char(s)
    ELSE LET mid == Len(s) \div 2
         IN  to_lowercase(SubSeq(s, 1, mid)) \o to_lowercase(SubSeq(s, mid + 1, Len(s)))

(***************************************************************************)
(* Bytes.                                                                  *)
(***************************************************************************)
UpperHexDigits == "0123456789ABCDEF"
LowerHexDigits == "0123456789abcdef"
\* The characters of the bytes 32..126, in order.  A TLA+ string cannot hold
\* the grave accent (byte 96): "\t", which no byte renders as, stands for it.
AsciiPrintable ==
    " !\"#$%&'()*+,-./0123456789:;<=>?@ABCDEFGHIJKLMNOPQRSTUVWXYZ[\\]^_\tabcdefghijklmnopqrstuvwxyz{|}~"

\* ascii_utils::Check::is_printable on char::from(byte).  The crate is a
\* dependency, not part of the source; it is taken to accept the visible ASCII
\* range, blank to tilde.  The tests pin only bytes 0 (".") and 65 ("A").
is_printable(byte) == byte >= 32 /\ byte <= 126

\* fn byte_to_string
byte_to_string(byte) ==
    IF is_printable(byte) THEN CharAt(AsciiPrintable, byte - 31) ELSE "."

\* fn byte_to_hex: format!("{:02X}", byte)
byte_to_hex(byte) ==
    CharAt(UpperHexDigits, (byte \div 16) + 1) \o CharAt(UpperHexDigits, (byte % 16) + 1)

(***************************************************************************)
(* u32 arithmetic on [hi, lo].                                             *)
(***************************************************************************)
\* The u32 of a small natural number (`0`, `bytes_read as u32`, `columns as u32`).
u32_of(n) == [hi |-> (n \div Half) % Half, lo |-> n % Half]

\* a + b on u32, wrapping as the release build does (the debug build panics on
\* overflow; neither happens below 2^32 bytes of input).
u32_add(a, b) ==
    LET lo == a.lo + b.lo
    IN  [hi |-> (a.hi + b.hi + (lo \div Half)) % Half, lo |-> lo % Half]

\* a % m on u32, for 0 < m <= 1024 (m is 16 * columns).
u32_rem(a, m) == (((a.hi % m) * (Half % m)) + (a.lo % m)) % m

\* The hexadecimal digits of n, lowercase, without leading zeros ("" for 0).
RECURSIVE lower_hex(_)
lower_hex(n) ==
    IF n = 0 THEN "" ELSE lower_hex(n \div 16) \o CharAt(LowerHexDigits, (n % 16) + 1)

\* fn address_to_hex: format!("{:#010x}", address): "0x", then the digits
\* zero-padded to the total width 10.
address_to_hex(address) ==
    LET h      == lower_hex(address.hi)
        l      == lower_hex(address.lo)
        digits == IF address.hi = 0 THEN (IF address.lo = 0 THEN "0" ELSE l)
                  ELSE h \o Repeat("0", 4 - Len(l)) \o l
    IN  "0x" \o Repeat("0", 8 - Len(digits)) \o digits

\* The fn(&u8) -> String handed to gen_block, by name.
call(fun, byte) ==
    IF fun = "byte_to_hex" THEN byte_to_hex(byte) ELSE byte_to_string(byte)

(***************************************************************************)
(* Rows.                                                                   *)
(***************************************************************************)
\* fn gen_block
gen_block(data, fun, columns, sep, filler) ==
    [b \in 1..(columns \div 8) |->
        LET block  == b - 1
            start  == Min(Len(data), block * 8)
            end    == Min(Len(data), start + 8)
            slice  == SubSeq(data, start + 1, end)
            result == [i \in 1..8 |->
                          IF i <= Len(slice) THEN call(fun, slice[i]) ELSE filler]
        IN  join(result, sep)]

\* fn create_row
create_row(address, data, text) == address \o "  " \o data \o "  " \o text \o "\n"

\* locations_header without its to_lowercase.
locations_header_not_lowered(columns) ==
    LET data    == [i \in 1..(columns % 256) |-> i - 1]
        blocks  == join(gen_block(data, "byte_to_hex", columns, " ", ".."), "  ")
    IN  create_row(pad(" ", 10), blocks, pad(" ", columns))

\* fn locations_header
locations_header(columns) ==
    LET data    == [i \in 1..(columns % 256) |-> i - 1]
        blocks  == join(gen_block(data, "byte_to_hex", columns, " ", ".."), "  ")
        address == pad(" ", 10)
        text    == pad(" ", columns)
    IN  to_lowercase(create_row(address, blocks, text))

\* data_row joining the text blocks with a blank.
data_row_text_spaced(address, data, columns) ==
    LET blocks == join(gen_block(data, "byte_to_hex", columns, " ", ".."), "  ")
        texts  == join(gen_block(data, "byte_to_string", columns, "", "."), " ")
    IN  create_row(address_to_hex(address), blocks, texts)

\* fn data_row
data_row(address, data, columns) ==
    LET blocks == join(gen_block(data, "byte_to_hex", columns, " ", ".."), "  ")
        texts  == join(gen_block(data, "byte_to_string", columns, "", "."), "")
    IN  create_row(address_to_hex(address), blocks, texts)

\* 3735928559, the address of the crate's tests.
DeadBeef == [hi |-> 57005, lo |-> 48879]

\* The assertions of the crate's tests (lib.rs:174-246), on the operators above.
TestVectors ==
    /\ byte_to_string(0) = "." /\ byte_to_string(65) = "A"
    /\ byte_to_hex(0) = "00" /\ byte_to_hex(15) = "0F" /\ byte_to_hex(16) = "10"
    /\ address_to_hex(u32_of(0)) = "0x00000000"
    /\ address_to_hex(u32_of(16)) = "0x00000010"
    /\ address_to_hex(u32_of(255)) = "0x000000ff"
    /\ address_to_hex(DeadBeef) = "0xdeadbeef"
    /\ locations_header(8) = "            00 01 02 03 04 05 06 07          \n"
    /\ locations_header(16) = "            00 01 02 03 04 05 06 07  08 09 0a 0b 0c 0d 0e 0f                  \n"
    /\ locations_header(32) = "            00 01 02 03 04 05 06 07  08 09 0a 0b 0c 0d 0e 0f  10 11 12 13 14 15 16 17  18 19 1a 1b 1c 1d 1e 1f                                  \n"
    /\ data_row(DeadBeef, <<48,49,50,51,52,53,54,55,56,57,65,66,67,68,69,70>>, 16)
         = "0xdeadbeef  30 31 32 33 34 35 36 37  38 39 41 42 43 44 45 46  0123456789ABCDEF\n"
    /\ data_row(DeadBeef, <<48,49,50,51>>, 16)
         = "0xdeadbeef  30 31 32 33 .. .. .. ..  .. .. .. .. .. .. .. ..  0123............\n"
    /\ data_row(DeadBeef, <<48,49,50,51,52,53,54,55,56,57,65,66>>, 16)
         = "0xdeadbeef  30 31 32 33 34 35 36 37  38 39 41 42 .. .. .. ..  0123456789AB....\n"
    /\ create_row("address", "data", "text") = "address  data  text\n"
    /\ Len(AsciiPrintable) = 95

(***************************************************************************)
(* dump(): the state.                                                      *)
(***************************************************************************)
VARIABLES
    columns,     \* cli.columns
    seed,        \* which input the byte source holds (see SourceByte)
    pc,          \* "start": dump not entered; "loop": before reader.read; "returned"
    buffer,      \* the read buffer `buffer`, a Vec<u8> of columns bytes, reused
    address,     \* `address`, a u32
    wbuf,        \* the lines held by the BufWriter, not yet handed to the file
    sink,        \* the lines the output file has received
    result,      \* what dump returned: "none" (still running), "Ok" or "Err"
    written,     \* history: the lines whose write! returned Ok, in order
    reads,       \* history: the byte count of every non-empty read, in order
    readCalls,   \* history: the number of reader.read calls made
    readFailed,  \* history: a reader.read call returned Err
    sinkFailed   \* history: a write to the output file failed

vars == <<columns, seed, pc, buffer, address, wbuf, sink, result,
          written, reads, readCalls, readFailed, sinkFailed>>

\* The inputs: the byte at stream offset i of input `seed`.  Seed 48 starts with
\* printable bytes ('0', '7', '>', ...), seed 250 with unprintable ones.
Seeds == {48, 250}
SourceByte(s, offset) == (s + 7 * offset) % 256

RECURSIVE Sum(_)
Sum(ns) == IF ns = <<>> THEN 0 ELSE ns[1] + Sum(Tail(ns))

\* The bytes of a sequence of lines.
RECURSIVE Bytes(_)
Bytes(lines) == IF lines = <<>> THEN 0 ELSE Len(lines[1]) + Bytes(Tail(lines))

(***************************************************************************)
(* The BufWriter over the output file (lib.rs:65).  A writer is            *)
(* [buf, sink]; an operation yields the set of its possible outcomes, the  *)
(* writer after it with `ok` (the io::Result) and `failed` (a write to     *)
(* the file failed).                                                       *)
(***************************************************************************)
\* BufWriter::flush_buf failing: the file took the first k buffered lines,
\* then a write returned an error; the rest stays buffered.
flush_failures(w) ==
    {[buf |-> SubSeq(w.buf, k + 1, Len(w.buf)),
      sink |-> w.sink \o SubSeq(w.buf, 1, k),
      ok |-> FALSE, failed |-> TRUE] :
        k \in 0..Min(Len(w.buf) - 1, MaxPartialLines)}

\* write!(writer, "{}", line): BufWriter::write_all.  A line that fits the spare
\* capacity is only buffered; otherwise the buffer is flushed to the file first,
\* and a failure of that flush is the error write! returns.
write(w, line) ==
    IF Bytes(w.buf) + Len(line) <= BufCapacity
    THEN {[buf |-> Append(w.buf, line), sink |-> w.sink, ok |-> TRUE, failed |-> FALSE]}
    ELSE {[buf |-> <<line>>, sink |-> w.sink \o w.buf, ok |-> TRUE, failed |-> FALSE]}
         \cup flush_failures(w)

\* BufWriter::drop as dump returns: the buffer is flushed and the flush's
\* result is discarded (`let _ = self.flush_buf()`).
drop(w) ==
    IF w.buf = <<>>
    THEN {[buf |-> <<>>, sink |-> w.sink, ok |-> TRUE, failed |-> FALSE]}
    ELSE {[buf |-> <<>>, sink |-> w.sink \o w.buf, ok |-> TRUE, failed |-> FALSE]}
         \cup flush_failures(w)

(***************************************************************************)
(* dump(): the steps.                                                      *)
(***************************************************************************)
\* A section break that repeats the header.
separator_repeats_header == locations_header(columns)

\* The blank-line separator of a section break (lib.rs:82).
separator == "\n"

\* A section break every 16 bytes, the row width forgotten.
section_break_every_16_bytes(addr, cols) == u32_rem(addr, 16) = 0

\* lib.rs:81: address % (16 * cli.columns as u32) == 0
section_break(addr, cols) == u32_rem(addr, 16 * cols) = 0

\* The address advanced by the row width, not by the bytes read.
next_address_by_columns(addr, bytes_read) == u32_add(addr, u32_of(columns))

\* lib.rs:86: address += bytes_read as u32
next_address(addr, bytes_read) == u32_add(addr, u32_of(bytes_read))

\* reader.read(&mut buffer) returning Ok(n): the first n bytes of the buffer
\* are overwritten by the chunk, the rest keeps what it held.
read_into(buf, chunk) == chunk \o SubSeq(buf, Len(chunk) + 1, Len(buf))

\* The whole buffer taken as the row's bytes.
slice_of_whole_buffer(buf, bytes_read) == buf

\* lib.rs:84: &buffer[0..bytes_read]
slice_of(buf, bytes_read) == SubSeq(buf, 1, bytes_read)

\* dump returns `res`; its locals are dropped, the BufWriter `w` among them.
Return(res, w) ==
    \E d \in drop(w) :
        /\ pc' = "returned"
        /\ result' = res
        /\ wbuf' = <<>>
        /\ sink' = d.sink
        /\ sinkFailed' = (sinkFailed \/ w.failed \/ d.failed)

\* lib.rs:48-51, 60-63: File::open or File::create fails; dump returns the error
\* before a writer exists.
OpenFail ==
    /\ pc = "start"
    /\ pc' = "returned"
    /\ result' = "Err"
    /\ UNCHANGED <<columns, seed, buffer, address, wbuf, sink, written, reads,
                   readCalls, readFailed, sinkFailed>>

\* lib.rs:45-72: the files open, the buffer is allocated and zeroed, the header
\* is written, address starts at 0.
Start ==
    /\ pc = "start"
    /\ buffer' = [i \in 1..columns |-> 0]
    /\ \E h \in write([buf |-> <<>>, sink |-> <<>>], locations_header(columns)) :
          IF h.ok
          THEN /\ written' = Append(written, locations_header(columns))
               /\ wbuf' = h.buf
               /\ sink' = h.sink
               /\ address' = u32_of(0)
               /\ pc' = "loop"
               /\ UNCHANGED <<result, sinkFailed>>
          ELSE /\ Return("Err", h)
               /\ UNCHANGED <<written, address>>
    /\ UNCHANGED <<columns, seed, reads, readCalls, readFailed>>

\* lib.rs:74, 80-89: reader.read returns Ok(n), n > 0.
ReadChunk(n) ==
    /\ pc = "loop"
    /\ n \in 1..columns
    /\ readCalls' = readCalls + 1
    /\ reads' = Append(reads, n)
    /\ LET chunk == [i \in 1..n |-> SourceByte(seed, Sum(reads) + i - 1)]
           w0    == [buf |-> wbuf, sink |-> sink, ok |-> TRUE, failed |-> FALSE]
           brk   == section_break(address, columns)
       IN  /\ buffer' = read_into(buffer, chunk)
           /\ \E s \in (IF brk THEN write(w0, separator) ELSE {w0}) :
                IF ~s.ok
                THEN /\ Return("Err", s)
                     /\ UNCHANGED <<written, address>>
                ELSE LET row    == data_row(address, slice_of(buffer', n), columns)
                         sofar  == IF brk THEN Append(written, separator) ELSE written
                     IN  /\ address' = next_address(address, n)
                         /\ \E r \in write(s, row) :
                              IF r.ok
                              THEN /\ written' = Append(sofar, row)
                                   /\ wbuf' = r.buf
                                   /\ sink' = r.sink
                                   /\ UNCHANGED <<pc, result, sinkFailed>>
                              ELSE /\ written' = sofar
                                   /\ Return("Err", r)
    /\ UNCHANGED <<columns, seed, readFailed>>

\* End of input reported as an error.
ReadEofAsError ==
    /\ pc = "loop"
    /\ readCalls' = readCalls + 1
    /\ Return("Err", [buf |-> wbuf, sink |-> sink, failed |-> FALSE])
    /\ UNCHANGED <<columns, seed, buffer, address, written, reads, readFailed>>

\* lib.rs:74-79: reader.read returns Ok(0); dump returns Ok(()).
ReadEof ==
    /\ pc = "loop"
    /\ readCalls' = readCalls + 1
    /\ Return("Ok", [buf |-> wbuf, sink |-> sink, failed |-> FALSE])
    /\ UNCHANGED <<columns, seed, buffer, address, written, reads, readFailed>>

\* A failed read retried: the loop goes on.
ReadErrRetried ==
    /\ pc = "loop"
    /\ readCalls < MaxRows
    /\ readCalls' = readCalls + 1
    /\ readFailed' = TRUE
    /\ UNCHANGED <<columns, seed, pc, buffer, address, wbuf, sink, result,
                   written, reads, sinkFailed>>

\* lib.rs:74, 90-94: reader.read returns Err; dump returns the error.
ReadErr ==
    /\ pc = "loop"
    /\ readCalls' = readCalls + 1
    /\ readFailed' = TRUE
    /\ Return("Err", [buf |-> wbuf, sink |-> sink, failed |-> FALSE])
    /\ UNCHANGED <<columns, seed, buffer, address, written, reads>>

(***************************************************************************)
(* The byte sources.                                                       *)
(***************************************************************************)
\* A regular file: every read fills the buffer until the last bytes of the
\* file, which may come short; the file has at most MaxRows rows.
FileRead(n) ==
    /\ Len(reads) < MaxRows
    /\ \A i \in 1..Len(reads) : reads[i] = columns
    /\ ReadChunk(n)

\* A pipe: any read may come short.
PipeSizes(cols) == {1, 3, cols - 1, cols}
PipeRead(n) ==
    /\ Len(reads) < MaxPipeReads
    /\ ReadChunk(n)

\* main (main.rs:13-16) calls dump only with a valid CommandLine.
Init ==
    /\ columns \in ValidColumns
    /\ seed \in Seeds
    /\ pc = "start"
    /\ buffer = <<>>
    /\ address = u32_of(0)
    /\ wbuf = <<>>
    /\ sink = <<>>
    /\ result = "none"
    /\ written = <<>>
    /\ reads = <<>>
    /\ readCalls = 0
    /\ readFailed = FALSE
    /\ sinkFailed = FALSE

Next ==
    \/ OpenFail
    \/ Start
    \/ \E n \in 1..columns : FileRead(n)
    \/ ReadEof
    \/ ReadErr

NextPipe ==
    \/ OpenFail
    \/ Start
    \/ \E n \in PipeSizes(columns) : PipeRead(n)
    \/ ReadEof
    \/ ReadErr

\* dump on a regular file.
Spec == Init /\ [][Next]_vars
\* dump on a pipe.
SpecPipe == Init /\ [][NextPipe]_vars

(***************************************************************************)
(* Reading the output back.  A line is the header (it starts with a        *)
(* blank), the separator, or a data row (it starts with "0x").  In a row   *)
(* of `cols` columns the fields sit at fixed offsets: the address in       *)
(* 1..10, position i (from 0) of the hex channel at HexPos(i), position i  *)
(* of the text channel at TextPos(cols, i).                                *)
(***************************************************************************)
IsBlank(line) == line = "\n"
IsRow(line) == Len(line) >= 2 /\ SubSeq(line, 1, 2) = "0x"
IsHeader(line) == Len(line) >= 1 /\ CharAt(line, 1) = " "

Last(q) == q[Len(q)]
IsPrefix(p, q) == Len(p) <= Len(q) /\ SubSeq(q, 1, Len(p)) = p

\* A block of the hex channel: 8 pairs and 7 blanks, and 2 blanks to the next.
HexWidth(cols) == (cols \div 8) * 25 - 2
HexPos(i) == 13 + (i \div 8) * 25 + (i % 8) * 3
TextPos(cols, i) == 12 + HexWidth(cols) + 2 + i + 1
RowLen(cols) == 12 + HexWidth(cols) + 2 + cols + 1
HexAt(row, i) == SubSeq(row, HexPos(i), HexPos(i) + 1)
TextAt(row, cols, i) == CharAt(row, TextPos(cols, i))

\* The value of a string of lowercase hexadecimal digits.
HexValue(c) == (CHOOSE d \in 1..16 : CharAt(LowerHexDigits, d) = c) - 1
RECURSIVE ParseHex(_)
ParseHex(str) ==
    IF Len(str) = 0 THEN 0
    ELSE 16 * ParseHex(SubSeq(str, 1, Len(str) - 1)) + HexValue(CharAt(str, Len(str)))

\* The address a row prints, as a u32.
RowAddress(row) == [hi |-> ParseHex(SubSeq(row, 3, 6)), lo |-> ParseHex(SubSeq(row, 7, 10))]

\* The rows among the lines written, in order.
Rows == SelectSeq(written, IsRow)

\* The stream offset of the r-th non-empty read, and the bytes it returned.
Offset(r) == Sum(SubSeq(reads, 1, r - 1))
Chunk(rds, r) == [i \in 1..rds[r] |-> SourceByte(seed, Sum(SubSeq(rds, 1, r - 1)) + i - 1)]

\* The header of `cols` columns, written out position by position.
LowerHex2(n) == CharAt(LowerHexDigits, (n \div 16) + 1) \o CharAt(LowerHexDigits, (n % 16) + 1)
RECURSIVE HeaderHex(_, _)
HeaderHex(cols, i) ==
    IF i = 0 THEN LowerHex2(0)
    ELSE HeaderHex(cols, i - 1) \o (IF i % 8 = 0 THEN "  " ELSE " ") \o LowerHex2(i)
ExpectedHeader ==
    [cols \in ValidColumns |->
        Repeat(" ", 10) \o "  " \o HeaderHex(cols, cols - 1) \o "  " \o Repeat(" ", cols) \o "\n"]

(***************************************************************************)
(* C1.  The header line is written exactly once, as the first line, before *)
(* the first read of the byte source; nothing later, the section break     *)
(* included, writes a header again.                                        *)
(***************************************************************************)
C1_HeaderOnceFirst ==
    /\ (pc = "loop" \/ readCalls > 0) =>
          /\ Len(written) >= 1
          /\ IsHeader(written[1])
    /\ \A i \in 2..Len(written) : ~IsHeader(written[i])
    /\ (pc = "loop" /\ readCalls = 0) => Len(written) = 1
    /\ sink # <<>> => IsHeader(sink[1])
    /\ \A i \in 2..Len(sink) : ~IsHeader(sink[i])

\* A dump that passed the section break before row 16 and ended.
C1_Witness == pc = "returned" /\ result = "Ok" /\ Len(reads) > 16 /\ sink = written

(***************************************************************************)
(* C2.  When every non-empty read but the last returns Columns bytes, a    *)
(* separator stands immediately before data row k (from 0) exactly when k  *)
(* is a multiple of 16, and nowhere else.                                  *)
(***************************************************************************)
FullReads == \A i \in 1..(Len(reads) - 1) : reads[i] = columns

\* Line p onwards is laid out so, k rows standing before line p.  A separator
\* whose row could not be written is the last line of a failed dump.
RECURSIVE BreaksEvery16(_, _)
BreaksEvery16(p, k) ==
    IF p > Len(written) THEN TRUE
    ELSE IF IsBlank(written[p])
    THEN /\ k % 16 = 0
         /\ ~IsBlank(written[p - 1])
         /\ IF p = Len(written) THEN result = "Err" ELSE IsRow(written[p + 1])
         /\ BreaksEvery16(p + 1, k)
    ELSE /\ IsRow(written[p])
         /\ IsBlank(written[p - 1]) <=> (k % 16 = 0)
         /\ BreaksEvery16(p + 1, k + 1)

C2_BreakEvery16Rows == FullReads => BreaksEvery16(2, 0)

\* Rows 15, 16 and 17 are written, the second section break between them.
C2_Witness ==
    /\ Len(written) >= 21
    /\ IsRow(written[18]) /\ IsBlank(written[19]) /\ IsRow(written[20]) /\ IsRow(written[21])

(***************************************************************************)
(* C3.  The address counter is the number of bytes the reads returned so   *)
(* far; every row prints the stream offset of its first byte, so the rows  *)
(* stand in strictly increasing address order, whatever the read sizes.    *)
(***************************************************************************)
C3_AddressIsOffset ==
    /\ pc = "start" => address = u32_of(0)
    /\ pc = "loop" => address = u32_of(Sum(reads))
    /\ Len(Rows) <= Len(reads)
    /\ \A r \in 1..Len(Rows) :
          /\ IsPrefix("0x", Rows[r])
          /\ RowAddress(Rows[r]) = u32_of(Offset(r))
          /\ r > 1 => ParseHex(SubSeq(Rows[r], 3, 10)) > ParseHex(SubSeq(Rows[r - 1], 3, 10))

\* Three rows, the first two of them from short reads.
C3_Witness ==
    /\ Len(Rows) >= 3
    /\ reads[1] < columns /\ reads[2] < columns
    /\ RowAddress(Rows[3]) = u32_of(reads[1] + reads[2])

(***************************************************************************)
(* C4.  When a read fails, dump returns an error at once: it reads no      *)
(* more, writes no separator and no row for the failed chunk, and the      *)
(* lines written before stay as they are; the lines the file holds stay,   *)
(* and the file receives nothing but the lines written before.  Nothing    *)
(* happens after dump returned.                                            *)
(***************************************************************************)
C4_ReadErrorStops ==
    [][/\ pc # "returned"
       /\ (readFailed' /\ ~readFailed) =>
             /\ pc' = "returned"
             /\ result' = "Err"
             /\ written' = written
             /\ reads' = reads
             /\ address' = address
             /\ IsPrefix(sink, sink')
             /\ IsPrefix(sink', written)
             /\ ~sinkFailed' => sink' = written]_vars

\* A read failed after rows were written, and the file holds them all.
C4_Witness ==
    /\ pc = "returned" /\ readFailed /\ result = "Err"
    /\ Len(Rows) >= 2 /\ sink = written

(***************************************************************************)
(* C5.  No failure of a write to the output file is swallowed: when one    *)
(* failed, also one of the output the BufWriter still held as dump         *)
(* returned, dump returns an error.                                        *)
(***************************************************************************)
C5_SinkFailureReported == (pc = "returned" /\ sinkFailed) => result = "Err"

(***************************************************************************)
(* C6.  Every row dump writes has Columns/8 blocks of 8 positions in both  *)
(* channels: position i shows byte i of the chunk just read when i < N,    *)
(* and the padding placeholder otherwise, never a byte an earlier chunk    *)
(* left in the buffer; inside a hex block the pairs are one blank apart.   *)
(***************************************************************************)
RowShows(row, chunk, cols) ==
    /\ Len(row) = RowLen(cols)
    /\ \A i \in 0..(cols - 1) :
          /\ HexAt(row, i) = IF i < Len(chunk) THEN byte_to_hex(chunk[i + 1]) ELSE ".."
          /\ TextAt(row, cols, i) = IF i < Len(chunk) THEN byte_to_string(chunk[i + 1]) ELSE "."
          /\ (i % 8 # 7) => CharAt(row, HexPos(i) + 2) = " "

\* Stated of the row written last, the row of the latest read: every row is
\* that row in the state its write! leaves, where dump is back at its loop.
C6_RowShowsChunk ==
    (pc = "loop" /\ IsRow(Last(written))) =>
        RowShows(Last(written), Chunk(reads, Len(reads)), columns)

\* A short row written while the buffer still holds bytes of the chunk before.
C6_Witness ==
    /\ pc = "loop" /\ Len(reads) >= 2
    /\ reads[Len(reads)] < columns
    /\ IsRow(Last(written))
    /\ buffer[columns] # 0
    /\ HexAt(Last(written), columns - 1) = ".."

(***************************************************************************)
(* C7.  As claimed: the text channel of a row is its blocks of 8           *)
(* characters joined with one blank, the hex channel its blocks joined     *)
(* with two.                                                               *)
(***************************************************************************)
C7_TextBlocksOneBlankApart ==
    (written # <<>> /\ IsRow(Last(written))) =>
        LET row == Last(written)
        IN  /\ Len(row) = RowLen(columns) + (columns \div 8) - 1
            /\ \A b \in 1..((columns \div 8) - 1) :
                  /\ SubSeq(row, HexPos(8 * b) - 2, HexPos(8 * b) - 1) = "  "
                  /\ CharAt(row, TextPos(columns, 0) + 9 * b - 1) = " "

(***************************************************************************)
(* C7, amended.  The text channel of a row is its blocks of 8 characters   *)
(* joined with nothing between them, Columns characters in all: the first  *)
(* character of a block follows the last of the block before.  The hex     *)
(* channel is its blocks joined with two blanks.                           *)
(***************************************************************************)
C7_TextBlocksAdjacent ==
    (pc = "loop" /\ IsRow(Last(written))) =>
        LET row   == Last(written)
            chunk == Chunk(reads, Len(reads))
            shown(i) == IF i < Len(chunk) THEN byte_to_string(chunk[i + 1]) ELSE "."
        IN  /\ Len(row) = RowLen(columns)
            /\ SubSeq(row, TextPos(columns, 0) - 2, TextPos(columns, 0) - 1) = "  "
            /\ CharAt(row, TextPos(columns, columns - 1) + 1) = "\n"
            /\ \A b \in 1..((columns \div 8) - 1) :
                  /\ SubSeq(row, HexPos(8 * b) - 2, HexPos(8 * b) - 1) = "  "
                  /\ CharAt(row, HexPos(8 * b) - 3) # " "
                  /\ TextAt(row, columns, 8 * b - 1) = shown(8 * b - 1)
                  /\ TextAt(row, columns, 8 * b) = shown(8 * b)

\* A full row of 16 columns: two blocks in each channel.
C7_Witness ==
    /\ columns = 16 /\ pc = "loop" /\ reads = <<16>>
    /\ IsRow(Last(written))
    /\ Len(Last(written)) = 79

(***************************************************************************)
(* C8.  The header is 10 blanks, 2 blanks, the indices 0..Columns-1 as     *)
(* two lowercase hex digits in blocks of 8 (one blank inside a block, two  *)
(* between blocks, no filler), 2 blanks, Columns blanks and a newline; it  *)
(* is as long as every data row.                                           *)
(***************************************************************************)
C8_HeaderLayout ==
    written # <<>> =>
        /\ written[1] = ExpectedHeader[columns]
        /\ IsRow(Last(written)) => Len(Last(written)) = Len(written[1])

\* The header of 64 columns with a row under it.
C8_Witness == columns = 64 /\ Len(written) >= 3 /\ IsRow(written[3])

(***************************************************************************)
(* C9.  A dump of an input whose length is a positive multiple of Columns  *)
(* has no short row, whatever the sizes of the reads: every row carries    *)
(* Columns bytes and no padding placeholder.                               *)
(***************************************************************************)
C9_NoShortRow ==
    (pc = "returned" /\ result = "Ok" /\ Sum(reads) > 0 /\ Sum(reads) % columns = 0) =>
        /\ \A r \in 1..Len(reads) : reads[r] = columns
        /\ \A r \in 1..Len(Rows) : HexAt(Rows[r], columns - 1) # ".."

(***************************************************************************)
(* C10.  A read of 0 bytes ends the dump: dump returns Ok and writes       *)
(* nothing at or after that read, and the file receives what was written   *)
(* before; the output for an empty input is the header line alone.  Until  *)
(* then every turn of the loop returns or consumes input, so a finite      *)
(* input is dumped in finitely many turns.                                 *)
(***************************************************************************)
C10_EofEndsDump ==
    [][/\ pc # "returned"
       /\ (pc = "loop" /\ readCalls' > readCalls /\ reads' = reads /\ ~readFailed') =>
             /\ pc' = "returned"
             /\ result' = "Ok"
             /\ written' = written
             /\ IsPrefix(sink, sink') /\ IsPrefix(sink', written)
             /\ ~sinkFailed' => sink' = written
             /\ reads = <<>> => written = <<ExpectedHeader[columns]>>
       /\ pc = "loop" => (pc' = "returned" \/ Sum(reads') > Sum(reads))]_vars

\* The dump of an empty input: the file holds the header line and nothing else.
C10_Witness ==
    /\ pc = "returned" /\ result = "Ok" /\ reads = <<>>
    /\ Len(sink) = 1 /\ IsHeader(sink[1])

=============================================================================
